---------------------------- MODULE Spec2Model ----------------------------
(***************************************************************************)
(* A model of dl-file: the managed destination file (DlFile), its builder, *)
(* its release rule (impl Drop for DlFile) and the copy driver             *)
(* (DownloadDriver) with its admission gate (tokio Semaphore) and its      *)
(* progress sink (DlProgress).                                             *)
(*                                                                         *)
(* One step of the model is one call of the operating system or of a       *)
(* collaborator (open, stat, close, remove, seek/truncate, a permit        *)
(* acquisition, a source poll, a sink write, a sink flush), with the code  *)
(* that runs up to the next such call.  The outcome of every call is an    *)
(* input of the step.                                                      *)
(***************************************************************************)
EXTENDS Integers, Sequences, FiniteSets, TLC

(* ------------------------------ bounds --------------------------------- *)

\* transfers one ManagedFile may start
MaxTransfers == 2
\* length of the longest source chunk
MaxChunkLen == 2
\* capacity K of the shared gate
GateCapacity == 1
\* zero-byte writes of one transfer that are counted
MaxZeroWrites == 1
\* the largest argument of an update() call of SpecHandle
MaxArg == 3
\* items of the longest source stream of SpecDriver
MaxItems == 3

\* The ManagedFiles and the paths, by name.  Spec follows one ManagedFile
\* through every outcome of its calls; SpecShared opens two ManagedFiles on
\* one path; SpecGate runs transfers on more ManagedFiles than the gate
\* admits, each on a path of its own; SpecDriver follows one transfer of one
\* ManagedFile over every stream and every split of the writes; SpecExclusive
\* and SpecReplace open two ManagedFiles on one path with Dont and with
\* DoIfEmpty; SpecRetry runs several transfers, one after the other, on each
\* of two ManagedFiles built with the gate, and SpecSink on one ManagedFile
\* that reports to a ProgressHandle; SpecHandle has the threads that call and
\* read one ProgressHandle.
Files == {1}
SharedFiles == {1, 2}
GateFiles == {1, 2, 3}
DriverFiles == {1}
RetryFiles == {1, 2}
\* The threads that call update() on one shared ProgressHandle, and those
\* that read it.
Callers == {1, 2}
Readers == {1, 2}
AllFiles == Files \cup SharedFiles \cup GateFiles \cup DriverFiles \cup RetryFiles
Paths == AllFiles

(* --------------------------- value domains ----------------------------- *)

\* enum Delete
Delete == {"Yes", "No", "IfEmptyOnDrop"}
\* Delete::default()
DeleteDefault == "IfEmptyOnDrop"
\* enum OverwriteBehavior
OverwriteBehavior == {"Do", "Dont", "DoIfEmpty"}
\* enum DropError, by kind
DropError == {"Metadata", "Deleting"}

\* The content of a path that holds no file.
Absent == [present |-> FALSE, owner |-> 0, data |-> <<>>]
\* A file at a path: owner names the open that created it (0: it was there
\* before any ManagedFile), data its bytes.
FileOf(o, d) == [present |-> TRUE, owner |-> o, data |-> d]

\* Option<B>::None and Some(buf) of DownloadDriver::current_buf
NoBuf == [some |-> FALSE, data |-> <<>>]
SomeBuf(d) == [some |-> TRUE, data |-> d]

\* One item of the source stream: io::Result<B>; a chunk of len bytes or an error.
Chunk(n) == [err |-> FALSE, len |-> n]
ErrItem == [err |-> TRUE, len |-> 0]

\* Option<u64>, the declared size
NoSize == [some |-> FALSE, n |-> 0]
SomeSize(n) == [some |-> TRUE, n |-> n]

\* The calls of trait DlProgress, as the sink receives them.
EvStart(size) == [ev |-> "start", some |-> size.some, n |-> size.n]
EvUpdate(n) == [ev |-> "update", some |-> TRUE, n |-> n]
EvFinished == [ev |-> "finished", some |-> FALSE, n |-> 0]

(* ------------------------------ helpers -------------------------------- *)

RECURSIVE SumLen(_)
\* Total bytes of the chunks of a stream.
SumLen(s) == IF s = <<>> THEN 0 ELSE Head(s).len + SumLen(Tail(s))

\* Bytes are numbered along the stream, so that a byte lost, duplicated or
\* reordered shows: the i-th chunk of s holds the bytes off+1 .. off+len.
ChunkBytes(s, i) ==
    LET off == SumLen(SubSeq(s, 1, i - 1))
    IN  [k \in 1..s[i].len |-> off + k]

\* What a handle at offset pos leaves of data after it wrote bytes there
\* (a gap below pos reads as zeros).
WriteAt(data, pos, bytes) ==
    LET padded == IF Len(data) >= pos THEN data
                  ELSE data \o [k \in 1..(pos - Len(data)) |-> 0]
        n == Len(bytes)
    IN  SubSeq(padded, 1, pos) \o bytes \o SubSeq(padded, pos + n + 1, Len(padded))

(* --------------------------- ProgressHandle ---------------------------- *)

\* ProgressHandle::new: the three atomics of ProgressHandleShared.
NewShared == [total_bytes |-> 0, bytes_written |-> 0, finished |-> FALSE]

\* u64::max
Max(a, b) == IF a >= b THEN a ELSE b

\* <&ProgressHandle as DlProgress>::start: a declared size is stored, None is not.
start(h, size) == IF size.some THEN [h EXCEPT !.total_bytes = size.n] ELSE h

\* A faulty update that stores its argument instead of merging it.
update_Store(h, n) == [h EXCEPT !.bytes_written = n]

\* <&ProgressHandle as DlProgress>::update: bytes_written.fetch_max(n)
update(h, n) == [h EXCEPT !.bytes_written = Max(@, n)]

\* <&ProgressHandle as DlProgress>::finished: finished.store(true)
finished(h) == [h EXCEPT !.finished = TRUE]

\* The handle after it received the call ev of DlProgress.
Received(h, ev) ==
    CASE ev.ev = "start" -> start(h, [some |-> ev.some, n |-> ev.n])
      [] ev.ev = "update" -> update(h, ev.n)
      [] ev.ev = "finished" -> finished(h)

\* ProgressHandleShared::get_bytes_written
get_bytes_written(h) == h.bytes_written

\* ProgressHandleShared::get_total_bytes: 0 reads as None
get_total_bytes(h) == IF h.total_bytes = 0 THEN NoSize ELSE SomeSize(h.total_bytes)

\* A thread that is not inside update(): no argument, no value.
Idle == [pc |-> "idle", arg |-> 0, max |-> 0]

(* ------------------------------- state --------------------------------- *)

VARIABLES
    disk,          \* the file system: path -> Absent or FileOf(owner, data)
    free,          \* Semaphore: permits available in the shared gate
    fstate,        \* per ManagedFile: its place in open / use / release
    path,          \* DlFile::path
    delete,        \* DlFile::delete
    semaphore,     \* DlFile::semaphore is Some
    progress,      \* DlFile::progress is Some
    openResult,    \* the result of DlFileBuilder::open
    ino,           \* the file the handle is open on (its owner mark)
    pos,           \* the handle's offset
    drv,           \* the transfer in flight: none / acquiring / running
    permit,        \* DownloadDriver::permit is Some
    declared,      \* the declared size passed to this transfer
    source,        \* the items the source stream of this transfer has yielded
    stream,        \* DownloadDriver::stream is Some
    current_buf,   \* DownloadDriver::current_buf
    bytes_copied,  \* DownloadDriver::bytes_copied
    suspended,     \* the call that returned Pending last, if the driver waits
    result,        \* the result of the last transfer
    plog,          \* the calls the progress sink received in this transfer
    sunk,          \* the bytes the sink accepted in this transfer
    hist,          \* per ManagedFile: what happened to it (observation only)
    closes,        \* how often the handle was closed
    removes,       \* how often a removal of the path was attempted
    cbs,           \* the calls of on_drop_error
    shared,        \* ProgressHandle::shared: total_bytes, bytes_written, finished
    calls,         \* per caller of the handle: its update() in progress
    reads,         \* per reader of the handle: what bytes_written() returned last
    done           \* the arguments of the update() calls that have returned

fileVars == <<fstate, path, delete, semaphore, progress, openResult, ino, pos>>
drvVars == <<drv, permit, declared, source, stream, current_buf, bytes_copied,
             suspended, result, plog, sunk>>
dropVars == <<closes, removes, cbs>>
obsVars == <<calls, reads, done>>
vars == <<disk, free, fileVars, drvVars, hist, dropVars, shared, obsVars>>


\* What is observed of one ManagedFile: whether a byte was committed through
\* it, whether a reset succeeded, the transfers it started, the zero-byte
\* writes of its last transfer (counted up to MaxZeroWrites; there may be
\* more) and whether its flush returned Pending, and at
\* its release what the stat of
\* should_delete returned ("none": no stat was made) and whether remove_file
\* succeeded ("none": it was not called); what its last reset() returned
\* ("none": it was not called), and the bytes written through its handle
\* since it was opened or since its last successful reset().
NoHist == [committed |-> FALSE, reset |-> FALSE, transfers |-> 0, zeroWrites |-> 0,
           flushWaited |-> FALSE, stat |-> "none", statLen |-> 0, rm |-> "none",
           lastReset |-> "none", written |-> <<>>]

NotOpened == [kind |-> "none", size |-> 0]
OpenedOk == [kind |-> "ok", size |-> 0]
\* io::ErrorKind::AlreadyExists, with the size the message reports
AlreadyExists(n) == [kind |-> "already_exists", size |-> n]
\* any other io::Error
IoError == [kind |-> "io_error", size |-> 0]

\* The files a path may hold before any ManagedFile is opened: none, an empty
\* one, one of one byte.
InitialFiles == {Absent, FileOf(0, <<>>), FileOf(0, <<0>>)}

\* The state after construction, for the ManagedFiles FS and a gate of cap permits.
InitWith(cap, disk0) ==
    /\ disk = disk0
    /\ free = cap
    /\ fstate = [f \in AllFiles |-> "new"]
    /\ path = [f \in AllFiles |-> 1]
    /\ delete = [f \in AllFiles |-> DeleteDefault]
    /\ semaphore = [f \in AllFiles |-> FALSE]
    /\ progress = [f \in AllFiles |-> FALSE]
    /\ openResult = [f \in AllFiles |-> NotOpened]
    /\ ino = [f \in AllFiles |-> 0]
    /\ pos = [f \in AllFiles |-> 0]
    /\ drv = [f \in AllFiles |-> "none"]
    /\ permit = [f \in AllFiles |-> FALSE]
    /\ declared = [f \in AllFiles |-> NoSize]
    /\ source = [f \in AllFiles |-> <<>>]
    /\ stream = [f \in AllFiles |-> FALSE]
    /\ current_buf = [f \in AllFiles |-> NoBuf]
    /\ bytes_copied = [f \in AllFiles |-> 0]
    /\ suspended = [f \in AllFiles |-> "none"]
    /\ result = [f \in AllFiles |-> [kind |-> "none", n |-> 0]]
    /\ plog = [f \in AllFiles |-> <<>>]
    /\ sunk = [f \in AllFiles |-> <<>>]
    /\ hist = [f \in AllFiles |-> NoHist]
    /\ closes = [f \in AllFiles |-> 0]
    /\ removes = [f \in AllFiles |-> 0]
    /\ cbs = [f \in AllFiles |-> <<>>]
    /\ shared = NewShared
    /\ calls = [c \in Callers |-> Idle]
    /\ reads = [r \in Readers |-> 0]
    /\ done = {}

(* ------------------------- DlFileBuilder::open ------------------------- *)

\* tokio::fs::File::create: the file at the path truncated, or a new file
\* created by f.
Created(d, f) == IF d.present THEN FileOf(d.owner, <<>>) ELSE FileOf(f, <<>>)

\* The DlFile that open returns: the builder's fields, and the handle at
\* offset 0 on the file now at the path.
OpenSucceeds(f, p) ==
    /\ disk' = [disk EXCEPT ![p] = Created(disk[p], f)]
    /\ fstate' = [fstate EXCEPT ![f] = "open"]
    /\ openResult' = [openResult EXCEPT ![f] = OpenedOk]
    /\ ino' = [ino EXCEPT ![f] = Created(disk[p], f).owner]
    /\ pos' = [pos EXCEPT ![f] = 0]

OpenFails(f, err) ==
    /\ fstate' = [fstate EXCEPT ![f] = "failed"]
    /\ openResult' = [openResult EXCEPT ![f] = err]
    /\ UNCHANGED <<disk, ino, pos>>

\* A faulty open whose Dont truncates a file that exists, as Do does.
OpenFirstCall_DontTruncates(f, p, ob, ok) ==
    CASE ob \in {"Do", "Dont"} ->
           IF ok THEN OpenSucceeds(f, p) ELSE OpenFails(f, IoError)
      [] ob = "DoIfEmpty" ->
           IF ~ok THEN OpenFails(f, IoError)
           ELSE IF disk[p].present /\ Len(disk[p].data) > 0
                THEN OpenFails(f, AlreadyExists(Len(disk[p].data)))
                ELSE /\ fstate' = [fstate EXCEPT ![f] = "opening"]
                     /\ UNCHANGED <<disk, openResult, ino, pos>>

\* A faulty open whose DoIfEmpty does not look at the length of the file.
OpenFirstCall_ReplaceAny(f, p, ob, ok) ==
    CASE ob = "Do" ->
           IF ok THEN OpenSucceeds(f, p) ELSE OpenFails(f, IoError)
      [] ob = "Dont" ->
           IF disk[p].present THEN OpenFails(f, AlreadyExists(0))
           ELSE IF ok THEN OpenSucceeds(f, p) ELSE OpenFails(f, IoError)
      [] ob = "DoIfEmpty" ->
           IF ~ok THEN OpenFails(f, IoError)
           ELSE /\ fstate' = [fstate EXCEPT ![f] = "opening"]
                /\ UNCHANGED <<disk, openResult, ino, pos>>

\* The match on overwrite_behavior, up to its first file-system call; ok is
\* whether that call meets no I/O failure of the environment.
OpenFirstCall(f, p, ob, ok) ==
    CASE ob = "Do" ->
           IF ok THEN OpenSucceeds(f, p) ELSE OpenFails(f, IoError)
      [] ob = "Dont" ->
           IF disk[p].present THEN OpenFails(f, AlreadyExists(0))
           ELSE IF ok THEN OpenSucceeds(f, p) ELSE OpenFails(f, IoError)
      [] ob = "DoIfEmpty" ->
           IF ~ok THEN OpenFails(f, IoError)
           ELSE IF disk[p].present /\ Len(disk[p].data) > 0
                THEN OpenFails(f, AlreadyExists(Len(disk[p].data)))
                ELSE /\ fstate' = [fstate EXCEPT ![f] = "opening"]
                     /\ UNCHANGED <<disk, openResult, ino, pos>>

\* DlFileBuilder::open, to its first file-system call on the path (the
\* parent directory exists): Do creates or truncates, Dont creates
\* exclusively, DoIfEmpty stats the path.
Open(f, p, ob, del, sem, prog, ok) ==
    /\ fstate[f] = "new"
    /\ path' = [path EXCEPT ![f] = p]
    /\ delete' = [delete EXCEPT ![f] = del]
    /\ semaphore' = [semaphore EXCEPT ![f] = sem]
    /\ progress' = [progress EXCEPT ![f] = prog]
    /\ OpenFirstCall(f, p, ob, ok)
    /\ UNCHANGED <<free, drvVars, hist, dropVars,
                   shared, obsVars>>

\* DoIfEmpty after its stat found no file or an empty one: File::create.
OpenCreate(f, ok) ==
    /\ fstate[f] = "opening"
    /\ IF ok THEN OpenSucceeds(f, path[f]) ELSE OpenFails(f, IoError)
    /\ UNCHANGED <<free, path, delete, semaphore, progress,
                   drvVars, hist, dropVars,
                   shared, obsVars>>

\* DlFile::set_delete
SetDelete(f, del) ==
    /\ fstate[f] = "open"
    /\ drv[f] = "none"
    /\ delete[f] # del
    /\ delete' = [delete EXCEPT ![f] = del]
    /\ UNCHANGED <<disk, free, fstate, path, semaphore, progress,
                   openResult, ino, pos, drvVars, hist, dropVars,
                   shared, obsVars>>

\* Whether the handle of f is open on the file now at its path.
Linked(f) == disk[path[f]].present /\ disk[path[f]].owner = ino[f]

\* A faulty reset that truncates the file and leaves the offset where it is.
ResetFile_NoSeek(out, h) ==
    [pos |-> h.pos, data |-> IF out = "ok" THEN <<>> ELSE h.data]

\* A faulty reset that goes on to truncate after a failed seek.
ResetFile_NoBail(out, h) ==
    [pos |-> IF out = "seek_err" THEN h.pos ELSE 0,
     data |-> IF out = "trunc_err" THEN h.data ELSE <<>>]

\* seek(SeekFrom::Start(0)).await? then set_len(0) on a handle at offset
\* h.pos of a file that holds h.data: the offset and the content they leave.
ResetFile(out, h) ==
    [pos |-> IF out = "seek_err" THEN h.pos ELSE 0,
     data |-> IF out = "ok" THEN <<>> ELSE h.data]

\* The offset of the handle of f and the content of the file at its path.
HandleOf(f) == [pos |-> pos[f], data |-> disk[path[f]].data]

\* DlFile::reset: seek to 0, then set_len(0); out is which of the two fails,
\* if any (`?` returns after a failed seek, so no truncate follows it).
Reset(f, out) ==
    /\ fstate[f] = "open"
    /\ drv[f] = "none"
    /\ pos' = [pos EXCEPT ![f] = ResetFile(out, HandleOf(f)).pos]
    /\ disk' = IF Linked(f)
               THEN [disk EXCEPT ![path[f]] =
                       FileOf(@.owner, ResetFile(out, HandleOf(f)).data)]
               ELSE disk
    /\ hist' = [hist EXCEPT ![f].reset = (out = "ok") \/ @,
                            ![f].lastReset = out,
                            ![f].written = IF out = "ok" THEN <<>> ELSE @]
    /\ UNCHANGED <<free, fstate, path, delete, semaphore, progress,
                   openResult, ino, drvVars, dropVars,
                   shared, obsVars>>


(* ------------------- DownloadDriver::new and ::poll -------------------- *)

NoResult == [kind |-> "none", n |-> 0]
\* Ok(bytes_copied)
Done(n) == [kind |-> "ok", n |-> n]
\* Err(error) of the source, of a write or of the flush
Failed(what) == [kind |-> what, n |-> 0]
\* the future was dropped before it completed
Abandoned == [kind |-> "abandoned", n |-> 0]

\* `if let Some(ref mut prog) = progress { prog.<call> }`
Report(f, ev) == IF progress[f] THEN Append(plog[f], ev) ELSE plog[f]

\* The handle after the call, if any, that this step added to a sink's log:
\* the sink of every ManagedFile built with one is the one &ProgressHandle.
Notified(old, new) ==
    IF Len(new) > Len(old) THEN Received(shared, new[Len(new)]) ELSE shared

\* A faulty driver that leaks its permit (it is forgotten, not dropped).
PermitDropped_Leaked(f) == free

\* The gate after the driver of f is dropped: OwnedSemaphorePermit::drop
\* gives the permit back.
PermitDropped(f) == IF permit[f] THEN free + 1 ELSE free

\* The driver of f is dropped, the transfer ending with res.
Discard(f, res) ==
    /\ free' = PermitDropped(f)
    /\ permit' = [permit EXCEPT ![f] = FALSE]
    /\ drv' = [drv EXCEPT ![f] = "none"]
    /\ stream' = [stream EXCEPT ![f] = FALSE]
    /\ current_buf' = [current_buf EXCEPT ![f] = NoBuf]
    /\ suspended' = [suspended EXCEPT ![f] = "none"]
    /\ result' = [result EXCEPT ![f] = res]

\* The fields of a new DownloadDriver (the struct literal of new).
DriverBuilt(f) ==
    /\ drv' = [drv EXCEPT ![f] = "running"]
    /\ stream' = [stream EXCEPT ![f] = TRUE]
    /\ current_buf' = [current_buf EXCEPT ![f] = NoBuf]
    /\ bytes_copied' = [bytes_copied EXCEPT ![f] = 0]

\* A faulty new that reports start() before it waits for the permit.
StartTransfer_EarlyStart(f, size) ==
    /\ fstate[f] = "open"
    /\ drv[f] = "none"
    /\ hist[f].transfers < MaxTransfers
    /\ semaphore' = [semaphore EXCEPT ![f] = FALSE]
    /\ declared' = [declared EXCEPT ![f] = size]
    /\ source' = [source EXCEPT ![f] = <<>>]
    /\ sunk' = [sunk EXCEPT ![f] = <<>>]
    /\ result' = [result EXCEPT ![f] = NoResult]
    /\ suspended' = [suspended EXCEPT ![f] = "none"]
    /\ hist' = [hist EXCEPT ![f].transfers = @ + 1, ![f].zeroWrites = 0,
                            ![f].flushWaited = FALSE]
    /\ plog' = [plog EXCEPT ![f] = IF progress[f] THEN <<EvStart(size)>> ELSE <<>>]
    /\ shared' = Notified(<<>>, plog'[f])
    /\ IF semaphore[f]
       THEN /\ drv' = [drv EXCEPT ![f] = "acquiring"]
            /\ UNCHANGED <<stream, current_buf, bytes_copied>>
       ELSE DriverBuilt(f)
    /\ UNCHANGED <<disk, free, fstate, path, delete, progress,
                   openResult, ino, pos, permit, dropVars,
                   obsVars>>

\* download_from_io_stream up to the first suspension of DownloadDriver::new:
\* the gate reference is taken out of the DlFile; with a gate the transfer
\* waits for a permit, without one the sink receives start() and the driver
\* is built.
StartTransfer(f, size) ==
    /\ fstate[f] = "open"
    /\ drv[f] = "none"
    /\ hist[f].transfers < MaxTransfers
    /\ semaphore' = [semaphore EXCEPT ![f] = FALSE]
    /\ declared' = [declared EXCEPT ![f] = size]
    /\ source' = [source EXCEPT ![f] = <<>>]
    /\ sunk' = [sunk EXCEPT ![f] = <<>>]
    /\ result' = [result EXCEPT ![f] = NoResult]
    /\ suspended' = [suspended EXCEPT ![f] = "none"]
    /\ hist' = [hist EXCEPT ![f].transfers = @ + 1, ![f].zeroWrites = 0,
                            ![f].flushWaited = FALSE]
    /\ IF semaphore[f]
       THEN /\ drv' = [drv EXCEPT ![f] = "acquiring"]
            /\ plog' = [plog EXCEPT ![f] = <<>>]
            /\ UNCHANGED <<stream, current_buf, bytes_copied>>
       ELSE /\ DriverBuilt(f)
            /\ plog' = [plog EXCEPT ![f] = IF progress[f] THEN <<EvStart(size)>> ELSE <<>>]
    /\ shared' = Notified(<<>>, plog'[f])
    /\ UNCHANGED <<disk, free, fstate, path, delete, progress,
                   openResult, ino, pos, permit, dropVars,
                   obsVars>>


\* A faulty gate that admits a transfer whether or not a permit is free.
Acquire_NoWait(f) ==
    /\ drv[f] = "acquiring"
    /\ free' = free - 1
    /\ permit' = [permit EXCEPT ![f] = TRUE]
    /\ plog' = [plog EXCEPT ![f] = Report(f, EvStart(declared[f]))]
    /\ shared' = Notified(plog[f], plog'[f])
    /\ DriverBuilt(f)
    /\ UNCHANGED <<disk, fileVars, declared, source, suspended, result,
                   sunk, hist, dropVars,
                   obsVars>>

\* DownloadDriver::new resumed with a permit: acquire_owned() returns once a
\* permit is free; then the sink receives start() and the driver is built.
Acquire(f) ==
    /\ drv[f] = "acquiring"
    /\ free > 0
    /\ free' = free - 1
    /\ permit' = [permit EXCEPT ![f] = TRUE]
    /\ plog' = [plog EXCEPT ![f] = Report(f, EvStart(declared[f]))]
    /\ shared' = Notified(plog[f], plog'[f])
    /\ DriverBuilt(f)
    /\ UNCHANGED <<disk, fileVars, declared, source, suspended, result,
                   sunk, hist, dropVars,
                   obsVars>>

\* A faulty loop that polls the stream before it drains the pending buffer.
Phase_SourceFirst(f) ==
    IF stream[f] THEN "source"
    ELSE IF current_buf[f].some THEN "write"
    ELSE "flush"

\* The call the next poll of the driver makes first: the loop of poll writes
\* while a buffer is pending, else polls the stream while there is one, else
\* flushes.
Phase(f) ==
    IF current_buf[f].some THEN "write"
    ELSE IF stream[f] THEN "source"
    ELSE "flush"

\* A faulty driver that forgets its pending buffer when a call returns Pending.
Pending_LosesBuf(f) ==
    /\ drv[f] = "running"
    /\ suspended[f] = "none"
    /\ suspended' = [suspended EXCEPT ![f] = Phase(f)]
    /\ current_buf' = [current_buf EXCEPT ![f] = NoBuf]
    /\ hist' = [hist EXCEPT ![f].flushWaited = @ \/ Phase(f) = "flush"]
    /\ UNCHANGED <<disk, free, fileVars, drv, permit, declared, source,
                   stream, bytes_copied, result, plog, sunk,
                   dropVars,
                   shared, obsVars>>

\* A call of poll returned Poll::Pending (std::task::ready! returns it as it
\* is): the driver keeps its fields and waits to be polled again.
Pending(f) ==
    /\ drv[f] = "running"
    /\ suspended[f] = "none"
    /\ suspended' = [suspended EXCEPT ![f] = Phase(f)]
    /\ hist' = [hist EXCEPT ![f].flushWaited = @ \/ Phase(f) = "flush"]
    /\ UNCHANGED <<disk, free, fileVars, drv, permit, declared, source,
                   stream, current_buf, bytes_copied, result, plog, sunk,
                   dropVars,
                   shared, obsVars>>

\* A faulty cursor that moves by one byte when the write accepted none.
Advanced_AtLeastOne(buf, n) ==
    LET rest == SubSeq(buf.data, Max(n, 1) + 1, Len(buf.data))
    IN  IF rest = <<>> THEN NoBuf ELSE SomeBuf(rest)

\* The buffer after a write that accepted n of its bytes: advance(n), and
\* None once nothing remains.
Advanced(buf, n) ==
    LET rest == SubSeq(buf.data, n + 1, Len(buf.data))
    IN  IF rest = <<>> THEN NoBuf ELSE SomeBuf(rest)

\* A faulty report: update() carries the bytes of this write, not the count.
AfterWrite_Delta(f, n, total) ==
    IF n > 0 THEN Report(f, EvUpdate(n)) ELSE plog[f]

\* A faulty report: update() is called after every write, also one of 0 bytes.
AfterWrite_Always(f, n, total) == Report(f, EvUpdate(total))

\* The sink's log after a write of n bytes brought the count to total.
AfterWrite(f, n, total) ==
    IF n > 0 THEN Report(f, EvUpdate(total)) ELSE plog[f]

\* poll_write returned Ready(Ok(n)) on the pending buffer, 0 <= n <= its
\* length: the file takes the bytes at the handle's offset.
WriteOk(f, n) ==
    /\ drv[f] = "running"
    /\ Phase(f) = "write"
    /\ n \in 0..Len(current_buf[f].data)
    /\ LET bytes == SubSeq(current_buf[f].data, 1, n)
           total == bytes_copied[f] + n
       IN  /\ current_buf' = [current_buf EXCEPT ![f] = Advanced(@, n)]
           /\ bytes_copied' = [bytes_copied EXCEPT ![f] = total]
           /\ plog' = [plog EXCEPT ![f] = AfterWrite(f, n, total)]
           /\ sunk' = [sunk EXCEPT ![f] = @ \o bytes]
           /\ disk' = IF Linked(f) /\ n > 0
                      THEN [disk EXCEPT ![path[f]] =
                              FileOf(@.owner, WriteAt(@.data, pos[f], bytes))]
                      ELSE disk
           /\ pos' = [pos EXCEPT ![f] = @ + n]
           /\ hist' = [hist EXCEPT ![f].committed = @ \/ (n > 0),
                                   ![f].zeroWrites = IF n = 0 /\ @ < MaxZeroWrites
                                                     THEN @ + 1 ELSE @,
                                   ![f].written = @ \o bytes]
    /\ suspended' = [suspended EXCEPT ![f] = "none"]
    /\ shared' = Notified(plog[f], plog'[f])
    /\ UNCHANGED <<free, fstate, path, delete, semaphore, progress,
                   openResult, ino, drv, permit, declared, source,
                   stream, result, dropVars,
                   obsVars>>

\* A faulty poll that skips an error item as it skips an empty chunk.
SourceItem_SkipErr(f, item) ==
    /\ drv[f] = "running"
    /\ Phase(f) = "source"
    /\ source' = [source EXCEPT ![f] = Append(@, item)]
    /\ current_buf' = [current_buf EXCEPT ![f] =
           IF item.len = 0 THEN NoBuf
           ELSE SomeBuf(ChunkBytes(Append(source[f], item), Len(source[f]) + 1))]
    /\ suspended' = [suspended EXCEPT ![f] = "none"]
    /\ UNCHANGED <<free, permit, drv, stream, result>>
    /\ UNCHANGED <<disk, fileVars, declared, bytes_copied, plog, sunk, hist,
                   dropVars,
                   shared, obsVars>>

\* poll_next returned Ready(Some(item)): an error item ends the transfer
\* (`result?`), an empty chunk is skipped and the stream polled again, a chunk
\* with bytes becomes the pending buffer.
SourceItem(f, item) ==
    /\ drv[f] = "running"
    /\ Phase(f) = "source"
    /\ source' = [source EXCEPT ![f] = Append(@, item)]
    /\ IF item.err
       THEN Discard(f, Failed("source_err"))
       ELSE /\ current_buf' = [current_buf EXCEPT ![f] =
                   IF item.len = 0 THEN NoBuf
                   ELSE SomeBuf(ChunkBytes(Append(source[f], item), Len(source[f]) + 1))]
            /\ suspended' = [suspended EXCEPT ![f] = "none"]
            /\ UNCHANGED <<free, permit, drv, stream, result>>
    /\ UNCHANGED <<disk, fileVars, declared, bytes_copied, plog, sunk, hist,
                   dropVars,
                   shared, obsVars>>

\* A faulty poll that keeps the stream after it ended.
SourceEnd_KeepsStream(f) ==
    /\ drv[f] = "running"
    /\ Phase(f) = "source"
    /\ suspended' = [suspended EXCEPT ![f] = "none"]
    /\ UNCHANGED <<disk, free, fileVars, drv, permit, declared, source, stream,
                   current_buf, bytes_copied, result, plog, sunk, hist, dropVars,
                   shared, obsVars>>

\* poll_next returned Ready(None): the stream is exhausted and dropped, and
\* poll goes on to the flush.
SourceEnd(f) ==
    /\ drv[f] = "running"
    /\ Phase(f) = "source"
    /\ stream' = [stream EXCEPT ![f] = FALSE]
    /\ suspended' = [suspended EXCEPT ![f] = "none"]
    /\ UNCHANGED <<disk, free, fileVars, drv, permit, declared, source,
                   current_buf, bytes_copied, result, plog, sunk, hist, dropVars,
                   shared, obsVars>>

\* A faulty poll that reports finished() before it looks at the result of
\* the flush.
SinkErr_Finished(f) ==
    /\ drv[f] = "running"
    /\ Phase(f) \in {"write", "flush"}
    /\ plog' = [plog EXCEPT ![f] = IF Phase(f) = "flush"
                                   THEN Report(f, EvFinished) ELSE @]
    /\ shared' = Notified(plog[f], plog'[f])
    /\ Discard(f, Failed(IF Phase(f) = "write" THEN "write_err" ELSE "flush_err"))
    /\ UNCHANGED <<disk, fileVars, declared, source, bytes_copied, sunk, hist,
                   dropVars,
                   obsVars>>

\* poll_write or poll_flush returned Ready(Err(_)): `?` returns the error and
\* the driver is dropped.
SinkErr(f) ==
    /\ drv[f] = "running"
    /\ Phase(f) \in {"write", "flush"}
    /\ Discard(f, Failed(IF Phase(f) = "write" THEN "write_err" ELSE "flush_err"))
    /\ UNCHANGED <<disk, fileVars, declared, source, bytes_copied, plog,
                   sunk, hist, dropVars,
                   shared, obsVars>>

\* poll_flush returned Ready(Ok(())): the sink receives finished() and the
\* transfer completes with Ok(bytes_copied).
FlushOk(f) ==
    /\ drv[f] = "running"
    /\ Phase(f) = "flush"
    /\ plog' = [plog EXCEPT ![f] = Report(f, EvFinished)]
    /\ shared' = Notified(plog[f], plog'[f])
    /\ Discard(f, Done(bytes_copied[f]))
    /\ UNCHANGED <<disk, fileVars, declared, source, bytes_copied, sunk,
                   hist, dropVars,
                   obsVars>>

\* The caller drops the future of download_from_io_stream while it waits: for
\* a permit, or at a call of the driver that returned Pending.
Abandon(f) ==
    /\ \/ drv[f] = "acquiring"
       \/ drv[f] = "running" /\ suspended[f] # "none"
    /\ Discard(f, Abandoned)
    /\ UNCHANGED <<disk, fileVars, declared, source, bytes_copied, plog,
                   sunk, hist, dropVars,
                   shared, obsVars>>


(* ------------------------ impl Drop for DlFile ------------------------- *)

\* A faulty should_delete: a failed stat counts as an empty file.
should_delete_ErrIsEmpty(f, statOk) ==
    CASE delete[f] = "Yes" -> "delete"
      [] delete[f] = "No" -> "keep"
      [] delete[f] = "IfEmptyOnDrop" ->
           IF ~statOk \/ ~disk[path[f]].present THEN "delete"
           ELSE IF Len(disk[path[f]].data) = 0 THEN "delete" ELSE "keep"

\* A faulty should_delete: the test of the length is inverted.
should_delete_NonEmpty(f, statOk) ==
    CASE delete[f] = "Yes" -> "delete"
      [] delete[f] = "No" -> "keep"
      [] delete[f] = "IfEmptyOnDrop" ->
           IF ~statOk \/ ~disk[path[f]].present THEN "err"
           ELSE IF Len(disk[path[f]].data) # 0 THEN "delete" ELSE "keep"

\* Delete::should_delete: "delete", "keep", or "err" when the stat fails;
\* statOk is whether the stat meets no I/O failure of the environment (a
\* missing path fails it in any case).
should_delete(f, statOk) ==
    CASE delete[f] = "Yes" -> "delete"
      [] delete[f] = "No" -> "keep"
      [] delete[f] = "IfEmptyOnDrop" ->
           IF ~statOk \/ ~disk[path[f]].present THEN "err"
           ELSE IF Len(disk[path[f]].data) = 0 THEN "delete" ELSE "keep"

\* A faulty order: the removal is attempted before the handle is closed.
AfterDecision_RemoveFirst(sd) == IF sd = "delete" THEN "removing" ELSE "closing"

\* Where drop goes after the match on should_delete: to the close of the
\* Err arm or of the end of drop, or to the close that precedes the removal.
AfterDecision(sd) == IF sd = "delete" THEN "closing_del" ELSE "closing"

\* A faulty drop without the early return of the should_delete arm: it falls
\* through to the close at the end of drop.
AfterClose_NoBail(st) == IF st = "closing_del" THEN "closing" ELSE "dropped"

\* Where drop goes after ManuallyDrop::drop(&mut self.file): to remove_file
\* in the should_delete arm, else it returns.
AfterClose(st) == IF st = "closing_del" THEN "removing" ELSE "dropped"

\* The calls of on_drop_error after the decision: Metadata when the stat failed.
AfterStatCbs(f, sd) == IF sd = "err" THEN Append(cbs[f], "Metadata") ELSE cbs[f]

\* A faulty drop that swallows the error of remove_file.
AfterRemoveCbs_Silent(f, removed) == cbs[f]

\* The calls of on_drop_error after remove_file: Deleting when it failed.
AfterRemoveCbs(f, removed) == IF removed THEN cbs[f] ELSE Append(cbs[f], "Deleting")

\* What std::fs::metadata returned to this release, as the environment gave it.
StatSeen(f, statOk) ==
    IF delete[f] # "IfEmptyOnDrop" THEN "none"
    ELSE IF statOk /\ disk[path[f]].present THEN "ok" ELSE "err"
StatLenSeen(f, statOk) ==
    IF StatSeen(f, statOk) = "ok" THEN Len(disk[path[f]].data) ELSE 0

\* drop, to the match on should_delete.  The DlFile is dropped by its owner,
\* so no transfer borrows it.
DropStat(f, statOk) ==
    /\ fstate[f] = "open"
    /\ drv[f] = "none"
    /\ LET sd == should_delete(f, statOk)
       IN  /\ fstate' = [fstate EXCEPT ![f] = AfterDecision(sd)]
           /\ cbs' = [cbs EXCEPT ![f] = AfterStatCbs(f, sd)]
    /\ hist' = [hist EXCEPT ![f].stat = StatSeen(f, statOk),
                            ![f].statLen = StatLenSeen(f, statOk)]
    /\ UNCHANGED <<disk, free, path, delete, semaphore, progress,
                   openResult, ino, pos, drvVars, closes, removes,
                   shared, obsVars>>

\* drop: ManuallyDrop::drop(&mut self.file) closes the handle.
DropClose(f) ==
    /\ fstate[f] \in {"closing", "closing_del"}
    /\ closes' = [closes EXCEPT ![f] = @ + 1]
    /\ fstate' = [fstate EXCEPT ![f] = AfterClose(fstate[f])]
    /\ UNCHANGED <<disk, free, path, delete, semaphore, progress,
                   openResult, ino, pos, drvVars, hist, removes, cbs,
                   shared, obsVars>>

\* drop: std::fs::remove_file(path); rmOk is whether it meets no I/O failure
\* of the environment (a missing path fails it in any case).
DropRemove(f, rmOk) ==
    /\ fstate[f] = "removing"
    /\ removes' = [removes EXCEPT ![f] = @ + 1]
    /\ LET removed == rmOk /\ disk[path[f]].present
       IN  /\ disk' = IF removed THEN [disk EXCEPT ![path[f]] = Absent] ELSE disk
           /\ cbs' = [cbs EXCEPT ![f] = AfterRemoveCbs(f, removed)]
    /\ hist' = [hist EXCEPT ![f].rm = IF rmOk /\ disk[path[f]].present
                                       THEN "ok" ELSE "err"]
    /\ fstate' = [fstate EXCEPT ![f] = "dropped"]
    /\ UNCHANGED <<free, path, delete, semaphore, progress,
                   openResult, ino, pos, drvVars, closes,
                   shared, obsVars>>

(* ----------------- callers and readers of the handle ------------------- *)

\* A thread calls update(path, n) on the handle.
CallUpdate(c, n) ==
    /\ calls[c].pc = "idle"
    /\ calls' = [calls EXCEPT ![c] = [pc |-> "called", arg |-> n, max |-> 0]]
    /\ UNCHANGED <<disk, free, fileVars, drvVars, hist, dropVars, shared,
                   reads, done>>

\* update: bytes_written.fetch_max(n, Relaxed).max(n), one atomic
\* read-modify-write that returns the value it found.
FetchMax(c) ==
    /\ calls[c].pc = "called"
    /\ shared' = update(shared, calls[c].arg)
    /\ calls' = [calls EXCEPT ![c].pc = "fetched",
                              ![c].max = Max(get_bytes_written(shared), calls[c].arg)]
    /\ UNCHANGED <<disk, free, fileVars, drvVars, hist, dropVars, reads, done>>

\* update: on_update(path, max, total, Running) is called and update returns.
ReturnUpdate(c) ==
    /\ calls[c].pc = "fetched"
    /\ calls' = [calls EXCEPT ![c] = Idle]
    /\ done' = done \cup {calls[c].arg}
    /\ UNCHANGED <<disk, free, fileVars, drvVars, hist, dropVars, shared, reads>>

\* A thread reads the handle: ProgressHandleShared::get_bytes_written.
ReadBytes(r) ==
    /\ reads' = [reads EXCEPT ![r] = get_bytes_written(shared)]
    /\ UNCHANGED <<disk, free, fileVars, drvVars, hist, dropVars, shared,
                   calls, done>>

(* --------------------------- specifications ---------------------------- *)

\* What the stream may yield: a chunk of 0..MaxChunkLen bytes, or an error.
Items == {Chunk(n) : n \in 0..MaxChunkLen} \cup {ErrItem}

\* The items of the source streams of Spec, SpecShared and SpecGate, which
\* end after one item at most: a chunk of one byte, or an error.
LifeItems == {Chunk(1), ErrItem}

\* Before any open, path 1 holds any of InitialFiles and the other paths nothing.
InitialDisks == {[p \in Paths |-> IF p = 1 THEN d ELSE Absent] : d \in InitialFiles}

ResetOutcomes == {"ok", "seek_err", "trunc_err"}

Init == \E d \in InitialDisks : InitWith(0, d)

\* One step of the ManagedFile f of Spec, which has no gate and no sink.
Step(f) ==
    \/ \E ob \in OverwriteBehavior, del \in Delete, ok \in BOOLEAN :
          Open(f, 1, ob, del, FALSE, FALSE, ok)
    \/ \E ok \in BOOLEAN : OpenCreate(f, ok)
    \/ \E del \in Delete : SetDelete(f, del)
    \/ \E out \in ResetOutcomes : Reset(f, out)
    \/ StartTransfer(f, NoSize)
    \/ Pending(f)
    \/ \E n \in 0..MaxChunkLen : WriteOk(f, n)
    \/ \E item \in LifeItems : source[f] = <<>> /\ SourceItem(f, item)
    \/ SourceEnd(f)
    \/ SinkErr(f)
    \/ FlushOk(f)
    \/ Abandon(f)
    \/ \E statOk \in BOOLEAN : DropStat(f, statOk)
    \/ DropClose(f)
    \/ \E rmOk \in BOOLEAN : DropRemove(f, rmOk)

Next == \E f \in Files : Step(f)

Spec == Init /\ [][Next]_vars


\* One step of a ManagedFile f of SpecShared: both are opened on path 1, and
\* each runs one transfer at most; its resets succeed (Spec has those that fail).
SharedStep(f) ==
    \/ \E ob \in OverwriteBehavior, del \in Delete, ok \in BOOLEAN :
          Open(f, 1, ob, del, FALSE, FALSE, ok)
    \/ \E ok \in BOOLEAN : OpenCreate(f, ok)
    \/ Reset(f, "ok")
    \/ hist[f].transfers = 0 /\ StartTransfer(f, NoSize)
    \/ \E n \in 1..MaxChunkLen : WriteOk(f, n)
    \/ source[f] = <<>> /\ SourceItem(f, Chunk(1))
    \/ SourceEnd(f)
    \/ SinkErr(f)
    \/ FlushOk(f)
    \/ \E statOk \in BOOLEAN : DropStat(f, statOk)
    \/ DropClose(f)
    \/ \E rmOk \in BOOLEAN : DropRemove(f, rmOk)

NextShared == \E f \in SharedFiles : SharedStep(f)

SpecShared == Init /\ [][NextShared]_vars

EmptyDisk == [p \in Paths |-> Absent]

\* SpecGate: a gate of GateCapacity permits, no file on any path.
InitGate == InitWith(GateCapacity, EmptyDisk)

\* One step of a ManagedFile f of SpecGate: each is built with the shared
\* gate, opened on a path of its own, and runs one transfer.
GateStep(f) ==
    \/ Open(f, f, "Do", DeleteDefault, TRUE, FALSE, TRUE)
    \/ hist[f].transfers = 0 /\ StartTransfer(f, NoSize)
    \/ Acquire(f)
    \/ Pending(f)
    \/ \E n \in 1..MaxChunkLen : WriteOk(f, n)
    \/ \E item \in LifeItems : source[f] = <<>> /\ SourceItem(f, item)
    \/ SourceEnd(f)
    \/ SinkErr(f)
    \/ FlushOk(f)
    \/ Abandon(f)

NextGate == \E f \in GateFiles : GateStep(f)

SpecGate == InitGate /\ [][NextGate]_vars

\* The source streams of SpecDriver are the sequences of at most MaxItems
\* items of Items: chunks of at most MaxChunkLen bytes (an empty one too) and
\* errors.
Sizes == {NoSize, SomeSize(MaxChunkLen)}

\* One step of the ManagedFile f of SpecDriver: built with or without the
\* gate, with a progress sink, it runs one transfer.
DriverStep(f) ==
    \/ \E sem \in BOOLEAN : Open(f, 1, "Do", DeleteDefault, sem, TRUE, TRUE)
    \/ \E size \in Sizes : hist[f].transfers = 0 /\ StartTransfer(f, size)
    \/ Acquire(f)
    \/ Pending(f)
    \/ \E n \in 0..MaxChunkLen : WriteOk(f, n)
    \/ \E item \in Items : Len(source[f]) < MaxItems /\ SourceItem(f, item)
    \/ SourceEnd(f)
    \/ SinkErr(f)
    \/ FlushOk(f)
    \/ Abandon(f)

NextDriver == \E f \in DriverFiles : DriverStep(f)

SpecDriver == InitGate /\ [][NextDriver]_vars

\* One step of a ManagedFile f of SpecExclusive: both are opened on path 1
\* with OverwriteBehavior::Dont, and each runs one transfer at most.
ExclusiveStep(f) ==
    \/ \E del \in Delete, ok \in BOOLEAN : Open(f, 1, "Dont", del, FALSE, FALSE, ok)
    \/ hist[f].transfers = 0 /\ StartTransfer(f, NoSize)
    \/ \E n \in 1..MaxChunkLen : WriteOk(f, n)
    \/ source[f] = <<>> /\ SourceItem(f, Chunk(1))
    \/ SourceEnd(f)
    \/ SinkErr(f)
    \/ FlushOk(f)
    \/ \E statOk \in BOOLEAN : DropStat(f, statOk)
    \/ DropClose(f)
    \/ \E rmOk \in BOOLEAN : DropRemove(f, rmOk)

NextExclusive == \E f \in SharedFiles : ExclusiveStep(f)

SpecExclusive == Init /\ [][NextExclusive]_vars

\* One step of a ManagedFile f of SpecReplace: both are opened on path 1
\* with OverwriteBehavior::DoIfEmpty, and each runs one transfer at most.
ReplaceStep(f) ==
    \/ \E del \in Delete, ok \in BOOLEAN : Open(f, 1, "DoIfEmpty", del, FALSE, FALSE, ok)
    \/ \E ok \in BOOLEAN : OpenCreate(f, ok)
    \/ hist[f].transfers = 0 /\ StartTransfer(f, NoSize)
    \/ \E n \in 1..MaxChunkLen : WriteOk(f, n)
    \/ source[f] = <<>> /\ SourceItem(f, Chunk(1))
    \/ SourceEnd(f)
    \/ SinkErr(f)
    \/ FlushOk(f)
    \/ \E statOk \in BOOLEAN : DropStat(f, statOk)
    \/ DropClose(f)
    \/ \E rmOk \in BOOLEAN : DropRemove(f, rmOk)

NextReplace == \E f \in SharedFiles : ReplaceStep(f)

SpecReplace == Init /\ [][NextReplace]_vars

\* The declared sizes of the transfers of SpecRetry.
RetrySizes == {NoSize, SomeSize(1), SomeSize(MaxChunkLen)}

\* One step of a ManagedFile f of SpecRetry: each is built with the shared
\* gate and with the one progress handle as its sink, opened on a path of its
\* own, and runs up to MaxTransfers transfers, one after the other, with a
\* reset() where the caller wants one.
RetryStep(f) ==
    \/ Open(f, f, "Do", DeleteDefault, TRUE, TRUE, TRUE)
    \/ Reset(f, "ok")
    \/ \E size \in RetrySizes : StartTransfer(f, size)
    \/ Acquire(f)
    \/ \E n \in 1..MaxChunkLen : WriteOk(f, n)
    \/ \E item \in LifeItems : source[f] = <<>> /\ SourceItem(f, item)
    \/ SourceEnd(f)
    \/ SinkErr(f)
    \/ FlushOk(f)
    \/ Abandon(f)

NextRetry == \E f \in RetryFiles : RetryStep(f)

SpecRetry == InitGate /\ [][NextRetry]_vars

\* One step of the ManagedFile f of SpecLive: one transfer that its caller
\* polls until it completes, over every stream of at most MaxItems items.
LiveStep(f) ==
    \/ \E sem \in BOOLEAN : Open(f, 1, "Do", DeleteDefault, sem, TRUE, TRUE)
    \/ hist[f].transfers = 0 /\ StartTransfer(f, NoSize)
    \/ Acquire(f)
    \/ Pending(f)
    \/ \E n \in 0..MaxChunkLen : WriteOk(f, n)
    \/ \E item \in Items : Len(source[f]) < MaxItems /\ SourceItem(f, item)
    \/ SourceEnd(f)
    \/ SinkErr(f)
    \/ FlushOk(f)

NextLive == \E f \in DriverFiles : LiveStep(f)

\* What the environment of a transfer owes it: a suspended acquisition is
\* resumed with a permit; a write on the pending buffer accepts a byte or
\* more in the end; the finite source yields its next item or its end; the
\* flush returns.
Resumed(f) ==
    /\ WF_vars(Acquire(f))
    /\ WF_vars(\E n \in 1..MaxChunkLen : WriteOk(f, n))
    /\ WF_vars(\/ \E item \in Items : Len(source[f]) < MaxItems /\ SourceItem(f, item)
               \/ SourceEnd(f))
    /\ WF_vars(FlushOk(f))

SpecLive == InitGate /\ [][NextLive]_vars /\ \A f \in DriverFiles : Resumed(f)

\* No gate, no file on any path, a new ProgressHandle.
InitHandle == InitWith(0, EmptyDisk)

\* One step of the ManagedFile f of SpecSink: built without a gate and with
\* the progress handle as its sink, it runs up to MaxTransfers transfers, one
\* after the other, each with a declared size of its own.
SinkStep(f) ==
    \/ Open(f, 1, "Do", DeleteDefault, FALSE, TRUE, TRUE)
    \/ Reset(f, "ok")
    \/ \E size \in RetrySizes : StartTransfer(f, size)
    \/ \E n \in 1..MaxChunkLen : WriteOk(f, n)
    \/ \E item \in LifeItems : source[f] = <<>> /\ SourceItem(f, item)
    \/ SourceEnd(f)
    \/ SinkErr(f)
    \/ FlushOk(f)

NextSink == \E f \in DriverFiles : SinkStep(f)

SpecSink == InitHandle /\ [][NextSink]_vars

\* SpecHandle: one ProgressHandle, shared by the threads that call update()
\* with any arguments in any order and by the threads that read it.
NextHandle ==
    \/ \E c \in Callers, n \in 1..MaxArg : CallUpdate(c, n)
    \/ \E c \in Callers : FetchMax(c)
    \/ \E c \in Callers : ReturnUpdate(c)
    \/ \E r \in Readers : ReadBytes(r)

SpecHandle == InitHandle /\ [][NextHandle]_vars

(* ------------------------------ release -------------------------------- *)

Releasing(f) == fstate[f] \in {"closing", "closing_del", "removing", "dropped"}

\* C1: under every cleanup policy, every outcome of the stat and of the
\* removal, and whatever its transfers did, release closes the handle exactly
\* once and attempts at most one removal: never more than one close or one
\* removal, no close before release, and one close once release is past its
\* close.
C1_SingleFinalize ==
    \A f \in Files :
        /\ closes[f] <= 1
        /\ removes[f] <= 1
        /\ ~Releasing(f) => closes[f] = 0 /\ removes[f] = 0
        /\ fstate[f] \in {"closing", "closing_del"} => closes[f] = 0 /\ removes[f] = 0
        /\ fstate[f] = "removing" => closes[f] = 1 /\ removes[f] = 0
        /\ fstate[f] = "dropped" => closes[f] = 1

\* C1: a release after an abandoned transfer whose removal failed.
C1_Witness ==
    \E f \in Files :
        /\ fstate[f] = "dropped"
        /\ result[f].kind = "abandoned"
        /\ hist[f].rm = "err"
        /\ closes[f] = 1
        /\ removes[f] = 1

\* C2: whenever release attempts to remove the file, the handle has already
\* been closed: the step that attempts a removal starts from a state in which
\* the close has happened, also when the removal fails.
C2_CloseBeforeRemove ==
    [][\A f \in Files : removes'[f] # removes[f] => closes[f] = 1 /\ closes'[f] = 1]_vars

\* C2: a removal that failed, after the close.
C2_Witness ==
    \E f \in Files : removes[f] = 1 /\ closes[f] = 1 /\ hist[f].rm = "err"

\* The cleanup policy in force and the stat of this release indicate deletion.
DeletionIndicated(f) ==
    \/ delete[f] = "Yes"
    \/ delete[f] = "IfEmptyOnDrop" /\ hist[f].stat = "ok" /\ hist[f].statLen = 0

\* C3: at release a removal is attempted if and only if the policy in force
\* is Yes (Always), or it is IfEmptyOnDrop and the stat succeeds and reports
\* length 0; with No (Never), or with a failing stat, none is attempted.
C3_RemovalIffIndicated ==
    \A f \in Files :
        /\ fstate[f] = "dropped" => (removes[f] = 1 <=> DeletionIndicated(f))
        /\ Releasing(f) /\ ~DeletionIndicated(f) => removes[f] = 0 /\ fstate[f] # "removing"
        /\ Releasing(f) /\ DeletionIndicated(f) => fstate[f] # "closing"

\* C3: a release under IfEmptyOnDrop whose stat reported length 0, and which
\* removed the file.
C3_Witness ==
    \E f \in Files :
        /\ fstate[f] = "dropped"
        /\ delete[f] = "IfEmptyOnDrop"
        /\ hist[f].stat = "ok"
        /\ hist[f].statLen = 0
        /\ removes[f] = 1
        /\ ~disk[path[f]].present

\* The calls of on_drop_error one release owes: Metadata for a failed stat,
\* Deleting for a failed removal.
CallbacksOwed(f) ==
    IF hist[f].stat = "err" THEN <<"Metadata">>
    ELSE IF hist[f].rm = "err" THEN <<"Deleting">>
    ELSE <<>>

\* C4: per release on_drop_error is called at most once: with Metadata
\* exactly when the stat failed (only under IfEmptyOnDrop), with Deleting
\* exactly when a removal was attempted and failed, never with both; and in
\* each case the handle is closed when release has completed.
C4_CallbackOnce ==
    \A f \in Files :
        /\ Len(cbs[f]) <= 1
        /\ hist[f].stat = "err" => delete[f] = "IfEmptyOnDrop" /\ hist[f].rm = "none"
        /\ hist[f].rm # "none" => removes[f] = 1
        /\ Releasing(f) => cbs[f] = CallbacksOwed(f)
        /\ ~Releasing(f) => cbs[f] = <<>>
        /\ fstate[f] = "dropped" => closes[f] = 1

\* C4: a completed release whose stat failed: Metadata reported once, the
\* handle closed, no removal.
C4_Witness ==
    \E f \in Files :
        /\ fstate[f] = "dropped"
        /\ closes[f] = 1
        /\ cbs[f] = <<"Metadata">>
        /\ removes[f] = 0


\* No other ManagedFile has been opened on the path of f.
SoleOpener(f) ==
    \A g \in SharedFiles \ {f} : fstate[g] \in {"new", "opening", "failed"}

\* C5, as the claim states it: with the default policy, after release a file
\* to which zero bytes were ever committed is absent, and one with a byte
\* committed and never reset is present.
C5_Original ==
    \A f \in SharedFiles :
        fstate[f] = "dropped" /\ delete[f] = DeleteDefault =>
            /\ ~hist[f].committed => ~disk[path[f]].present
            /\ hist[f].committed /\ ~hist[f].reset => disk[path[f]].present

\* C5, amended: with the default policy, for a ManagedFile that is the only
\* one opened on its path: after release a file to which zero bytes were
\* committed is absent unless the stat or the removal of the release failed,
\* and one with a byte committed and never reset is present.
C5_EmptyCleanup ==
    \A f \in SharedFiles :
        fstate[f] = "dropped" /\ delete[f] = DeleteDefault /\ SoleOpener(f) =>
            /\ ~hist[f].committed /\ hist[f].stat # "err" /\ hist[f].rm # "err"
                   => ~disk[path[f]].present
            /\ hist[f].committed /\ ~hist[f].reset => disk[path[f]].present

\* C5: a sole ManagedFile released after a transfer that committed nothing;
\* the stat and the removal succeeded and the file is gone.
C5_Witness ==
    \E f \in SharedFiles :
        /\ fstate[f] = "dropped"
        /\ delete[f] = DeleteDefault
        /\ SoleOpener(f)
        /\ hist[f].transfers = 1
        /\ ~hist[f].committed
        /\ hist[f].stat = "ok"
        /\ hist[f].rm = "ok"
        /\ ~disk[path[f]].present


(* ------------------------------- the gate ------------------------------ *)

\* The transfers that hold a permit, and those in flight.
Holders == {f \in GateFiles : permit[f]}
InFlight == {f \in GateFiles : drv[f] # "none"}

\* C6: with a gate of capacity K and more concurrent attempts on distinct
\* ManagedFiles, at most K transfers hold a permit; every other attempt waits
\* at the acquisition, having polled no chunk and written no byte.
C6_AdmissionBound ==
    /\ Cardinality(Holders) <= GateCapacity
    /\ \A f \in InFlight \ Holders :
          /\ drv[f] = "acquiring"
          /\ source[f] = <<>>
          /\ sunk[f] = <<>>
          /\ ~hist[f].committed
          /\ ~disk[path[f]].present \/ disk[path[f]].data = <<>>

\* C6: more attempts than permits: K transfers copy and another one waits.
C6_Witness ==
    /\ Cardinality(InFlight) > GateCapacity
    /\ Cardinality(Holders) = GateCapacity
    /\ \E f \in Holders : hist[f].committed
    /\ \E f \in InFlight : drv[f] = "acquiring"

\* C7: a permit acquired by a transfer is given back when its driver is
\* dropped, on success, on failure and on abandonment alike: the free permits
\* and the permits held always add up to the capacity, only a running
\* transfer holds a permit, and with no transfer in flight every permit is
\* free again.
C7_PermitReleased ==
    /\ free + Cardinality(Holders) = GateCapacity
    /\ \A f \in GateFiles : permit[f] => drv[f] = "running"
    /\ InFlight = {} => free = GateCapacity

\* C7: a transfer that completed, one that failed and one that was abandoned
\* after it wrote, and all the permits free again.
C7_Witness ==
    /\ InFlight = {}
    /\ free = GateCapacity
    /\ \E f \in GateFiles : result[f].kind = "ok"
    /\ \E f \in GateFiles : result[f].kind \in {"source_err", "write_err", "flush_err"}
    /\ \E f \in GateFiles : result[f].kind = "abandoned" /\ hist[f].committed


(* ------------------------------ the driver ----------------------------- *)

\* The update() calls of the sink's log, and their arguments.
Updates(f) == SelectSeq(plog[f], LAMBDA e : e.ev = "update")
UpdateValues(f) == [i \in 1..Len(Updates(f)) |-> Updates(f)[i].n]
LastOrZero(s) == IF s = <<>> THEN 0 ELSE s[Len(s)]
NonDecreasing(s) == \A i \in 1..(Len(s) - 1) : s[i] <= s[i + 1]
StrictlyIncreasing(s) == \A i \in 1..(Len(s) - 1) : s[i] < s[i + 1]
FinishedCount(f) == Len(SelectSeq(plog[f], LAMBDA e : e.ev = "finished"))

\* C8: for a successful transfer, for every sequence of source chunks and
\* every split of the writes, the update() values are non-decreasing, the
\* last of them is the total of the bytes of the source chunks, and the
\* result of the transfer is that total.
C8_MonotonicProgress ==
    \A f \in DriverFiles :
        result[f].kind = "ok" =>
            /\ NonDecreasing(UpdateValues(f))
            /\ result[f].n = SumLen(source[f])
            /\ SumLen(source[f]) > 0 => UpdateValues(f) # <<>>
            /\ UpdateValues(f) # <<>> => LastOrZero(UpdateValues(f)) = SumLen(source[f])

\* C8: chunks of 2, 0 and 1 bytes, the first written in two parts with a
\* write of 0 bytes in between: three updates, the result 3.
C8_Witness ==
    \E f \in DriverFiles :
        /\ result[f].kind = "ok"
        /\ result[f].n = 3
        /\ source[f] = <<Chunk(2), Chunk(0), Chunk(1)>>
        /\ UpdateValues(f) = <<1, 2, 3>>
        /\ hist[f].zeroWrites = 1

\* C9: within one transfer, whatever its outcome, the arguments of the
\* update() calls are strictly increasing, and each update() follows the
\* write that committed its bytes before the next write: in every state the
\* last update() carries the number of bytes the sink has accepted.
C9_UpdatesInOrder ==
    \A f \in DriverFiles :
        /\ StrictlyIncreasing(UpdateValues(f))
        /\ LastOrZero(UpdateValues(f)) = Len(sunk[f])

\* C9: a transfer abandoned after two writes and their two updates.
C9_Witness ==
    \E f \in DriverFiles :
        /\ result[f].kind = "abandoned"
        /\ UpdateValues(f) = <<1, 2>>
        /\ sunk[f] = <<1, 2>>

\* C10: finished() is reported exactly once when the transfer completes
\* successfully, as the last call and only by the flush that returned success
\* (also when the flush returned Pending first); it is not reported while
\* the transfer runs, nor when it ends with an error or is abandoned.
C10_FinishedOnce ==
    \A f \in DriverFiles :
        /\ result[f].kind = "ok" =>
              FinishedCount(f) = 1 /\ plog[f][Len(plog[f])] = EvFinished
        /\ result[f].kind # "ok" => FinishedCount(f) = 0

\* C10: a transfer that completed after its flush returned Pending once, with
\* one finished().
C10_Witness ==
    \E f \in DriverFiles :
        /\ result[f].kind = "ok"
        /\ hist[f].flushWaited
        /\ FinishedCount(f) = 1

\* C11: update(path, cumulative_bytes) is reported once for each sink write
\* that accepted more than zero bytes, carrying the count after that write,
\* and by no other step; a write that accepted zero bytes leaves the buffer,
\* the count and the sink's log as they are; an empty source chunk becomes no
\* buffer, is followed by no write and no update, and leaves the driver at
\* the source poll.
C11_UpdatePerWrite ==
    [][\A f \in DriverFiles :
          LET wrote == Len(sunk'[f]) > Len(sunk[f])
              zero == hist'[f].zeroWrites > hist[f].zeroWrites
              empty == /\ Len(source'[f]) > Len(source[f])
                       /\ source'[f][Len(source'[f])] = Chunk(0)
          IN  /\ wrote => /\ Updates(f)' = Append(Updates(f), EvUpdate(bytes_copied'[f]))
                          /\ bytes_copied'[f] = Len(sunk'[f])
              /\ ~wrote => Updates(f)' = Updates(f)
              /\ zero => /\ current_buf'[f] = current_buf[f]
                         /\ bytes_copied'[f] = bytes_copied[f]
                         /\ plog'[f] = plog[f]
                         /\ sunk'[f] = sunk[f]
              /\ empty => /\ current_buf'[f] = NoBuf
                          /\ drv'[f] = "running"
                          /\ Phase(f)' = "source"
                          /\ plog'[f] = plog[f]
                          /\ sunk'[f] = sunk[f]
                          /\ bytes_copied'[f] = bytes_copied[f]
      ]_vars

\* C11: an empty chunk, then a chunk of 2 bytes written in two parts with a
\* write of 0 bytes: two writes accepted bytes, two updates.
C11_Witness ==
    \E f \in DriverFiles :
        /\ result[f].kind = "ok"
        /\ source[f] = <<Chunk(0), Chunk(2)>>
        /\ hist[f].zeroWrites = 1
        /\ UpdateValues(f) = <<1, 2>>
        /\ Len(plog[f]) = 4

(* ------------------------------- start() ------------------------------- *)

StartCount(f) == Len(SelectSeq(plog[f], LAMBDA e : e.ev = "start"))

\* The sink of f has received start() with the declared size of this
\* transfer, once and before every other call.
Started(f) ==
    /\ plog[f] # <<>>
    /\ plog[f][1] = EvStart(declared[f])
    /\ StartCount(f) = 1

Errors == {"source_err", "write_err", "flush_err"}

\* The bytes 1 .. n of the stream, in order.
FirstBytes(n) == [k \in 1..n |-> k]

\* C13: an error item of the source, a failed write and a failed flush end
\* the transfer in that step with that error as its result: the step changes
\* neither the file nor the sink's log, and once the result is an error the
\* driver is gone and no poll, write, flush, update() or finished() follows.
\* Nothing is rolled back: the file holds the bytes the sink accepted before
\* the failure, which are a prefix of the stream, and after a source error
\* they are the bytes of all the chunks that preceded the error item.
C13_FailFast ==
    /\ [](\A f \in DriverFiles :
            /\ \A i \in 1..Len(source[f]) :
                  source[f][i].err => i = Len(source[f]) /\ result[f].kind = "source_err"
            /\ result[f].kind \in Errors =>
                  /\ drv[f] = "none" /\ ~permit[f]
                  /\ FinishedCount(f) = 0
                  /\ disk[path[f]].present
                  /\ disk[path[f]].data = sunk[f]
                  /\ sunk[f] = FirstBytes(Len(sunk[f]))
                  /\ LastOrZero(UpdateValues(f)) = Len(sunk[f])
            /\ result[f].kind = "source_err" =>
                  /\ source[f][Len(source[f])] = ErrItem
                  /\ sunk[f] = FirstBytes(SumLen(source[f])))
    /\ [][\A f \in DriverFiles :
            /\ result'[f].kind \in Errors /\ result[f].kind \notin Errors =>
                  /\ drv[f] = "running"
                  /\ disk' = disk /\ sunk'[f] = sunk[f] /\ plog'[f] = plog[f]
                  /\ pos'[f] = pos[f]
                  /\ result'[f].kind = "source_err" <=> source'[f] # source[f]
                  /\ result'[f].kind = "write_err" => Phase(f) = "write"
                  /\ result'[f].kind = "flush_err" => Phase(f) = "flush"
            /\ result[f].kind \in Errors =>
                  /\ result'[f] = result[f]
                  /\ source'[f] = source[f] /\ sunk'[f] = sunk[f]
                  /\ plog'[f] = plog[f] /\ disk' = disk
      ]_vars

\* C13: a source error after a chunk of 2 bytes that was written in two parts:
\* the two bytes are in the file.
C13_Witness ==
    \E f \in DriverFiles :
        /\ result[f].kind = "source_err"
        /\ source[f] = <<Chunk(2), ErrItem>>
        /\ UpdateValues(f) = <<1, 2>>
        /\ disk[path[f]].data = <<1, 2>>

(* -------------------------------- open --------------------------------- *)

\* This step is the first file-system call of the open of f.
OpensNow(f) == fstate[f] = "new" /\ fstate'[f] # "new"

\* C14: when the path holds a file, and so when an earlier open with
\* CreateExclusive created one that still exists, an open with
\* CreateExclusive fails with an AlreadyExists error and leaves the file, its
\* content and its length as they are; a failed open yields no ManagedFile:
\* no handle, no transfer, and no close, removal or callback ever runs for it.
C14_ExclusiveOpen ==
    /\ [](\A g \in SharedFiles :
            fstate[g] = "failed" =>
                /\ openResult[g].kind \in {"already_exists", "io_error"}
                /\ closes[g] = 0 /\ removes[g] = 0 /\ cbs[g] = <<>>
                /\ drv[g] = "none" /\ hist[g] = NoHist)
    /\ [][\A g \in SharedFiles :
            /\ OpensNow(g) /\ disk[1].present =>
                  /\ fstate'[g] = "failed"
                  /\ openResult'[g].kind = "already_exists"
                  /\ disk' = disk
            /\ OpensNow(g) /\ fstate'[g] = "open" =>
                  ~disk[1].present /\ disk'[1] = FileOf(g, <<>>)
            /\ fstate[g] = "failed" => fstate'[g] = "failed"
      ]_vars

\* C14: the first open created the file and wrote a byte, the second open
\* failed with AlreadyExists; the first ManagedFile was released, and the
\* file holds its byte.
C14_Witness ==
    \E f, g \in SharedFiles :
        /\ fstate[f] = "dropped"
        /\ disk[1] = FileOf(f, <<1>>)
        /\ fstate[g] = "failed"
        /\ openResult[g].kind = "already_exists"
        /\ closes[g] = 0

\* This step is the File::create that follows the stat of a ReplaceIfEmpty open.
CreatesNow(f) == fstate[f] = "opening" /\ fstate'[f] # "opening"

\* C15: an open with ReplaceIfEmpty stats the path first.  When the stat
\* finds a file of length N > 0 the open fails with an AlreadyExists error
\* that reports N and the file is left as it is; when the stat fails for
\* another reason than a missing path that error is the result of the open;
\* when it finds a file of length 0 or no file the open goes on to create:
\* an existing file is truncated, a missing one is created, and the open
\* succeeds with the handle at offset 0 of an empty file, unless the create
\* fails, which is then the result and changes nothing.
C15_ReplaceIfEmpty ==
    [][\A f \in SharedFiles :
          /\ OpensNow(f) =>
                /\ disk' = disk
                /\ fstate'[f] \in {"failed", "opening"}
                /\ disk[1].present /\ disk[1].data # <<>> =>
                      /\ fstate'[f] = "failed"
                      /\ \/ openResult'[f] = [kind |-> "already_exists",
                                               size |-> Len(disk[1].data)]
                         \/ openResult'[f].kind = "io_error"
                /\ ~disk[1].present \/ disk[1].data = <<>> =>
                      \/ fstate'[f] = "opening" /\ openResult'[f] = NotOpened
                      \/ fstate'[f] = "failed" /\ openResult'[f].kind = "io_error"
          /\ CreatesNow(f) =>
                \/ /\ fstate'[f] = "open"
                   /\ openResult'[f].kind = "ok"
                   /\ pos'[f] = 0
                   /\ disk'[1] = IF disk[1].present THEN FileOf(disk[1].owner, <<>>)
                                                    ELSE FileOf(f, <<>>)
                   /\ ino'[f] = disk'[1].owner
                \/ /\ fstate'[f] = "failed"
                   /\ openResult'[f].kind = "io_error"
                   /\ disk' = disk
      ]_vars

\* C15: one open replaced the empty file that was there, the other failed on
\* the byte the first had written since, reporting the length 1.
C15_Witness ==
    \E f, g \in SharedFiles :
        /\ fstate[f] = "open"
        /\ disk[1] = FileOf(0, <<1>>)
        /\ ino[f] = 0
        /\ fstate[g] = "failed"
        /\ openResult[g] = [kind |-> "already_exists", size |-> 1]

(* ------------------------------- reset() ------------------------------- *)

\* This step is a call of reset() on f: of the operations on an open
\* ManagedFile with no transfer in flight, the one that leaves its state,
\* its policy and its transfers as they are.
ResetsNow(f) ==
    /\ fstate[f] = "open" /\ fstate'[f] = "open"
    /\ drv[f] = "none" /\ drv'[f] = "none"
    /\ delete'[f] = delete[f]
    /\ hist'[f].transfers = hist[f].transfers

\* No reset() has failed since the file was opened or last reset with success.
Clean(f) == hist[f].lastReset \in {"none", "ok"}

\* C16: whatever the file held and wherever the handle stood, a successful
\* reset() leaves the handle at offset 0 and the file with length 0; the
\* bytes b written after it make the file hold exactly b, with the handle at
\* the end of b, which is what the same bytes make of a freshly created
\* file; and a second reset() changes nothing that the first one left.
C16_ResetThenWrite ==
    /\ [](\A f \in Files :
            /\ fstate[f] = "open" /\ Clean(f) =>
                  /\ Linked(f)
                  /\ disk[path[f]].data = hist[f].written
                  /\ pos[f] = Len(hist[f].written)
            /\ fstate[f] = "open" =>
                  ResetFile("ok", ResetFile("ok", HandleOf(f)))
                      = ResetFile("ok", HandleOf(f)))
    /\ [][\A f \in Files :
            ResetsNow(f) /\ hist'[f].lastReset = "ok" =>
                /\ pos'[f] = 0
                /\ disk'[path[f]].present
                /\ disk'[path[f]].data = <<>>
                /\ hist'[f].written = <<>>
      ]_vars

\* C16: a transfer wrote a byte, reset() succeeded, and a second transfer
\* wrote the same byte again: the file holds that one byte.
C16_Witness ==
    \E f \in Files :
        /\ hist[f].lastReset = "ok"
        /\ hist[f].transfers = 2
        /\ result[f] = Done(1)
        /\ hist[f].written = <<1>>
        /\ disk[path[f]].data = <<1>>
        /\ pos[f] = 1

\* C17: a reset() whose seek fails returns that error and has attempted no
\* truncate: the offset, the length and the content are as before; a reset()
\* whose seek succeeds and whose truncate fails returns that error and leaves
\* the handle at offset 0 and the file with its previous length and content.
C17_ResetFailure ==
    [][\A f \in Files :
          /\ ResetsNow(f) /\ hist'[f].lastReset = "seek_err" =>
                /\ pos'[f] = pos[f]
                /\ disk' = disk
                /\ hist'[f].reset = hist[f].reset
                /\ hist'[f].written = hist[f].written
          /\ ResetsNow(f) /\ hist'[f].lastReset = "trunc_err" =>
                /\ pos'[f] = 0
                /\ disk' = disk
                /\ hist'[f].reset = hist[f].reset
                /\ hist'[f].written = hist[f].written
      ]_vars

\* C17: after a transfer wrote a byte, a reset() whose truncate failed: the
\* handle is at offset 0 and the file still holds the byte.
C17_Witness ==
    \E f \in Files :
        /\ fstate[f] = "open"
        /\ hist[f].lastReset = "trunc_err"
        /\ pos[f] = 0
        /\ disk[path[f]].data = <<1>>
        /\ ~hist[f].reset

(* ---------------------------- ProgressHandle --------------------------- *)

\* The largest member of a set of numbers, 0 for the empty set.
MaxOf(S) == IF S = {} THEN 0 ELSE CHOOSE m \in S : \A n \in S : n <= m

\* The arguments of the update() calls that have merged their argument and
\* not returned yet.
Merging == {calls[c].arg : c \in {d \in Callers : calls[d].pc = "fetched"}}

\* C18: under every interleaving of update() calls, whatever their arguments
\* and their order, with the readers: no read of bytes_written() returns less
\* than the read before it by the same reader; the value is never below the
\* argument of an update() that has returned, it is 0 or the argument of an
\* update() that has merged, and when every update() that has merged has
\* returned it is the maximum of their arguments; the value an update()
\* passes to on_update is not below its argument.
C18_MonotonicMax ==
    /\ [](/\ \A n \in done : shared.bytes_written >= n
          /\ shared.bytes_written \in {0} \cup done \cup Merging
          /\ Merging = {} => shared.bytes_written = MaxOf(done)
          /\ \A r \in Readers : reads[r] <= shared.bytes_written
          /\ \A c \in Callers :
                calls[c].pc = "fetched" =>
                    calls[c].arg <= calls[c].max /\ calls[c].max <= shared.bytes_written)
    /\ [][/\ \A r \in Readers : reads'[r] >= reads[r]
          /\ shared'.bytes_written >= shared.bytes_written
      ]_vars

\* C18: update(MaxArg) has returned and a reader has seen its value; an
\* update(1) that merged after it found the larger value and kept it.
C18_Witness ==
    /\ MaxArg \in done
    /\ shared.bytes_written = MaxArg
    /\ \E r \in Readers : reads[r] = MaxArg
    /\ \E c \in Callers : calls[c] = [pc |-> "fetched", arg |-> 1, max |-> MaxArg]

\* C19: over the sink calls of the transfers that report to one handle,
\* total_bytes is set at most once and finished at most once: once
\* total_bytes holds a declared size no step changes it, and no step takes
\* finished from true back to false.
C19_SetOnce ==
    [][/\ shared.total_bytes # 0 => shared'.total_bytes = shared.total_bytes
       /\ shared.finished => shared'.finished
      ]_vars

\* The transfers past the permit acquisition: they poll the source, write
\* or flush.
Copying == {f \in RetryFiles : drv[f] = "running"}

\* C20: for ManagedFiles built with one shared gate of capacity K, over any
\* sequence of transfers, a second or later one on the same ManagedFile and
\* one that follows a transfer abandoned while it waited included: at most K
\* transfers are past the permit acquisition, and every transfer that copies
\* holds a permit of the gate.
C20_GateBound ==
    /\ Cardinality(Copying) <= GateCapacity
    /\ \A f \in Copying : permit[f]

(* ------------------------- bytes of a transfer ------------------------- *)

\* C21: in every state of a transfer, whatever the split of the writes and
\* wherever the driver was suspended and polled again: the bytes handed to
\* the sink are the first bytes of the chunks received so far, in their
\* order, each once; the pending buffer holds the rest of them; the
\* cumulative count is the number of bytes handed over, and they are what
\* the file holds; on success they are all the bytes of the source.
C21_PrefixOfSource ==
    \A f \in DriverFiles :
        /\ sunk[f] = FirstBytes(Len(sunk[f]))
        /\ Len(sunk[f]) <= SumLen(source[f])
        /\ bytes_copied[f] = Len(sunk[f])
        /\ drv[f] = "running" =>
              sunk[f] \o current_buf[f].data = FirstBytes(SumLen(source[f]))
        /\ fstate[f] = "open" => disk[path[f]].data = sunk[f]
        /\ result[f].kind = "ok" => sunk[f] = FirstBytes(SumLen(source[f]))

\* C21: two chunks of 2 bytes received, three bytes handed over in parts
\* with a write of 0 bytes among them, the fourth byte pending while the
\* driver waits for the sink.
C21_Witness ==
    \E f \in DriverFiles :
        /\ drv[f] = "running"
        /\ suspended[f] = "write"
        /\ source[f] = <<Chunk(2), Chunk(2)>>
        /\ sunk[f] = <<1, 2, 3>>
        /\ current_buf[f] = SomeBuf(<<4>>)
        /\ bytes_copied[f] = 3
        /\ hist[f].zeroWrites = 1

\* C22: the phases of the driver, at every suspension and every new poll: a
\* pending buffer has unread bytes; a write is made only on a pending
\* buffer; the source is polled only with no buffer pending and the stream
\* not exhausted; the flush is issued only with the stream exhausted and no
\* buffer pending; a suspended driver is polled again at the call that
\* suspended it; and once the stream reported its end it is not polled
\* again, also when the flush suspends.
C22_PhaseDiscipline ==
    /\ [](\A f \in DriverFiles :
            /\ current_buf[f].some => current_buf[f].data # <<>> /\ drv[f] = "running"
            /\ stream[f] => drv[f] = "running"
            /\ suspended[f] # "none" => drv[f] = "running" /\ suspended[f] = Phase(f)
            /\ suspended[f] = "write" => current_buf[f].some
            /\ suspended[f] = "source" => ~current_buf[f].some /\ stream[f]
            /\ suspended[f] = "flush" => ~current_buf[f].some /\ ~stream[f])
    /\ [][\A f \in DriverFiles :
            drv[f] = "running" =>
                /\ \/ source'[f] # source[f]
                   \/ stream[f] /\ ~stream'[f] /\ drv'[f] = "running"
                   => ~current_buf[f].some /\ stream[f]
                /\ \/ sunk'[f] # sunk[f]
                   \/ hist'[f].zeroWrites # hist[f].zeroWrites
                   \/ result'[f].kind = "write_err"
                   => current_buf[f].some
                /\ result'[f].kind \in {"ok", "flush_err"} =>
                      ~current_buf[f].some /\ ~stream[f]
                /\ ~stream[f] =>
                      /\ source'[f] = source[f]
                      /\ ~stream'[f]
                      /\ suspended'[f] # "source"
      ]_vars

\* C22: the stream has ended after one chunk, the flush returned Pending and
\* the driver waits to be polled again at the flush.
C22_Witness ==
    \E f \in DriverFiles :
        /\ drv[f] = "running"
        /\ suspended[f] = "flush"
        /\ ~stream[f]
        /\ source[f] = <<Chunk(1)>>
        /\ sunk[f] = <<1>>

(* ----------------------------- termination ----------------------------- *)

\* C23: for a finite source, when every suspended acquisition, source poll,
\* write and flush is resumed and a write on the pending buffer accepts a
\* byte or more in the end, a transfer that has started completes: with
\* Ok(total) for the total of the bytes of the source, or with an error; it
\* stays neither at the write nor at the source poll, however many empty
\* chunks and writes of 0 bytes occur.
C23_Terminates ==
    \A f \in DriverFiles :
        (drv[f] # "none") ~>
            /\ drv[f] = "none"
            /\ \/ result[f] = Done(SumLen(source[f]))
               \/ result[f].kind \in Errors

\* C23: a transfer completed after an empty chunk, as many writes of 0 bytes
\* as are counted, and a flush that returned Pending.
C23_Witness ==
    \E f \in DriverFiles :
        /\ result[f].kind = "ok"
        /\ result[f].n > 0
        /\ hist[f].zeroWrites = MaxZeroWrites
        /\ hist[f].flushWaited
        /\ \E i \in 1..Len(source[f]) : source[f][i] = Chunk(0)

(* ------------------------ replace only if empty ------------------------ *)

\* C24: under every interleaving of a ReplaceIfEmpty open (the stat of the
\* path, then the create that truncates) with another open of the path and
\* with its writer, no step of the open changes a file that holds bytes: the
\* file it truncates has length 0 at the moment of the truncation.
C24_NeverTruncatesData ==
    [][\A f \in SharedFiles :
          (OpensNow(f) \/ CreatesNow(f)) /\ disk[1].present /\ disk[1].data # <<>>
              => disk'[1] = disk[1]
      ]_vars

====
